---- MODULE Spec2Model ----
(***************************************************************************)
(* Model of the meditation-generation service (src/src/med_crew/api.py,    *)
(* src/src/med_crew/main.py, src/src/my_crew/models.py).                   *)
(*                                                                         *)
(* The Shared State Store is the redis connection r (keys                  *)
(* job:<id>:status, :progress, :error, :result_path), the document store   *)
(* is the mongo collection, the output sink is the process-wide            *)
(* sys.stdout / sys.stderr pair.  Every statement of run_generation_job    *)
(* that touches shared state is one step of the job's thread, so that the  *)
(* threads of different background tasks interleave between statements.    *)
(***************************************************************************)
EXTENDS Integers, Sequences, FiniteSets, TLC

\* ------------------------------------------------------------------ bounds
MaxJobs == 2          \* job ids uuid4 can hand out in one run of the model
MaxSessions == 2      \* stream sessions that can be open at the same time
SessionsHorizon == 2  \* seconds over which several sessions are followed
MaxTime == 3          \* the clock stops advancing here
MaxDuration == 3      \* declared duration_seconds of a draft: 0..MaxDuration
MaxEnd == 2           \* segment start/end times: 0..MaxEnd
MaxSegments == 2      \* segments of a draft
MaxActions == 2       \* actions of a draft handed to the post-processing
MaxCalls == 2         \* calls of the parameter generator in one run of the model
MaxWrites == 2        \* DummyFile.write calls recorded in one run of the model
MaxThreads == 2       \* tokens of the limiter of the server's worker threads

JobIds == 1..MaxJobs
UnknownId == 0        \* a job id no submission ever returned
SessionIds == 1..MaxSessions
LoneSession == {1}    \* the session of a run with a single subscriber

\* r.get of a key that was never set returns None
None == "None"
\* the same for a key that holds JSON text (modelled as a sequence)
NoText == << >>

\* ------------------------------------------------------------- variables
VARIABLES
    status,        \* redis job:<id>:status
    progress,      \* redis job:<id>:progress (JSON text)
    error,         \* redis job:<id>:error
    result_path,   \* redis job:<id>:result_path
    collection,    \* mongo collection: inserted documents, in insertion order
    sys_stdout,    \* sys.stdout: 0 = the original stream, j = a DummyFile of job j
    sys_stderr,    \* sys.stderr, likewise
    allocated,     \* the ids uuid4 has returned so far
    tasks,         \* background_tasks: scheduled run_generation_job calls per id
    executions,    \* how many times run_generation_job was entered per id
    pc,            \* per job: the statement of run_generation_job it is at
    old_stdout,    \* per job: local old_stdout
    old_stderr,    \* per job: local old_stderr
    result,        \* per job: local result (the MeditationSession)
    exc,           \* per job: the exception e raised in the try block, or None
    progressBy,    \* per job: the thread whose call made the last progress write
    draft,         \* the keyword arguments handed to MeditationSession(...)
    session,       \* the outcome of that construction
    sess,          \* per stream session: the frame of sse_event_generator
    clock,         \* time.time(), in whole seconds
    query,         \* the API request being served (check_status / get_result)
    _parameter_cache,  \* ActionParameterGeneratorTool._parameter_cache
    calls,         \* the calls of _run made so far: arguments, cache before, outcome
    post,          \* the frame of the post-processing loop of generate_custom_meditation
    written        \* the recorded calls of DummyFile.write: text, sink, outcome

jobVars == <<status, progress, error, result_path, collection, sys_stdout,
             sys_stderr, allocated, tasks, executions, pc, old_stdout,
             old_stderr, result, exc, progressBy>>

toolVars == <<_parameter_cache, calls, post>>

modelVars == <<draft, session, toolVars, written>>

streamVars == <<sess, clock>>

\* what a step of run_generation_job or of a submission leaves alone
envVars == <<modelVars, sess, clock, query>>

vars == <<jobVars, modelVars, streamVars, query>>

\* ------------------------------------------------------------- JSON text
\* json.dumps of a dict with string values: its key/value pairs in insertion order
json_dumps(pairs) == pairs

\* json.loads of such a text: the dict, as a function from key to value
json_loads(text) ==
    [k \in {text[i][1] : i \in DOMAIN text} |->
        LET i == CHOOSE n \in DOMAIN text :
                    text[n][1] = k /\ \A m \in DOMAIN text : text[m][1] = k => m <= n
        IN text[i][2]]

\* ---------------------------------------------------- progress capture
\* A text is the sequence of the Unicode code points of its characters
\* (ord(c) of each character c), so that every character of a Python str is
\* told apart from every other.

\* the code points c with chr(c).isspace(): all the characters str.strip()
\* removes (U+0009..U+000D, U+001C..U+0020, U+0085, U+00A0, U+1680,
\* U+2000..U+200A, U+2028, U+2029, U+202F, U+205F, U+3000)
Whitespace ==
    (9..13) \cup (28..32) \cup {133, 160, 5760} \cup (8192..8202)
        \cup {8232, 8233, 8239, 8287, 12288}

IsSpace(c) == c \in Whitespace

RECURSIVE lstrip(_)
lstrip(x) == IF x # << >> /\ IsSpace(Head(x)) THEN lstrip(Tail(x)) ELSE x

RECURSIVE rstrip(_)
rstrip(x) ==
    IF x # << >> /\ IsSpace(x[Len(x)]) THEN rstrip(SubSeq(x, 1, Len(x) - 1)) ELSE x

\* str.strip()
strip(x) == rstrip(lstrip(x))

\* the characters the pattern of line 52 names: "[Agent:" is AgentTag, "]" is
\* 93, " " is 32, and "\n", the one character "." does not match, is 10
AgentTag == << 91, 65, 103, 101, 110, 116, 58 >>

\* the prefix of s that "." can match: up to the first newline
UpToNewline(s) ==
    IF \E i \in DOMAIN s : s[i] = 10
    THEN SubSeq(s, 1, (CHOOSE i \in DOMAIN s :
                          s[i] = 10 /\ \A k \in 1..(i - 1) : s[k] # 10) - 1)
    ELSE s

\* the positions i at which "\] " can match after a lazy (.*?) that starts
\* behind the tag
CloseAt(line) ==
    {i \in (Len(AgentTag) + 1)..(Len(line) - 1) :
        /\ line[i] = 93
        /\ line[i + 1] = 32
        /\ \A k \in (Len(AgentTag) + 1)..(i - 1) : line[k] # 10}

\* re.match(r"\[Agent:(.*?)\] (.*)", line): <<agent, msg>>, or << >> for no match
re_match(line) ==
    IF /\ Len(line) >= Len(AgentTag)
       /\ SubSeq(line, 1, Len(AgentTag)) = AgentTag
       /\ CloseAt(line) # {}
    THEN LET i == CHOOSE n \in CloseAt(line) : \A m \in CloseAt(line) : n <= m
         IN << SubSeq(line, Len(AgentTag) + 1, i - 1),
               UpToNewline(SubSeq(line, i + 2, Len(line))) >>
    ELSE << >>

\* The texts the Producer hands to the sink:
\*   "[Agent:a] m"
\*   " \t<U+00A0>[Agent:b] m\r<U+0085><U+2028>\n"   (white space of every kind)
\*   "[Agent:a]m"                              (no space behind the tag)
\*   "m[Agent:a] m"                            (the tag is not at the start)
\*   "<U+200B>[Agent:a] m"                     (U+200B is not white space)
\*   "m"
\*   "<U+3000>\n"                              (white space only)
Lines ==
    { AgentTag \o << 97, 93, 32, 109 >>,
      << 32, 9, 160 >> \o AgentTag \o << 98, 93, 32, 109 >> \o << 13, 133, 8232, 10 >>,
      AgentTag \o << 97, 93, 109 >>,
      << 109 >> \o AgentTag \o << 97, 93, 32, 109 >>,
      << 8203 >> \o AgentTag \o << 97, 93, 32, 109 >>,
      << 109 >>,
      << 12288, 10 >> }

\* What DummyFile.write(x) of job j's sink sets the progress key to:
\* the JSON text, or NoText when it writes nothing.
DummyFileWrite(x) ==
    LET line == strip(x)
        m == re_match(line)
    IN IF line # << >> /\ m # << >>
       THEN json_dumps(<< <<"agent", m[1]>>, <<"message", m[2]>> >>)
       ELSE NoText

\* ------------------------------------------------- MeditationSession
\* the fields of MeditationSession in declaration order: pydantic validates
\* them in this order
FieldOrder ==
    << "title", "duration_seconds", "theme", "difficulty", "background_music",
       "segments" >>

Max(S) == CHOOSE x \in S : \A y \in S : y <= x

\* Segment: start_time_seconds ge=0, end_time_seconds ge=1
SegmentValid(s) == s.start_time_seconds >= 0 /\ s.end_time_seconds >= 1

\* the Field(...) constraints of MeditationSession
FieldValid(f, kwargs) ==
    CASE f = "duration_seconds" -> kwargs.duration_seconds >= 1
      [] f = "segments" ->
            \A i \in DOMAIN kwargs.segments : SegmentValid(kwargs.segments[i])
      [] OTHER -> TRUE

\* the dict `values` a validator of the k-th field receives: the fields
\* declared before it that passed validation
ValuesBefore(k, kwargs) ==
    [f \in {FieldOrder[i] : i \in {n \in 1..(k - 1) : FieldValid(FieldOrder[n], kwargs)}}
        |-> kwargs[f]]

\* @validator('duration_seconds'): TRUE when it returns v, FALSE when it raises
check_duration_matches_segments(v, values) ==
    IF "segments" \in DOMAIN values /\ values["segments"] # << >>
    THEN LET segments == values["segments"]
             max_end_time ==
                 Max({segments[i].end_time_seconds : i \in DOMAIN segments})
         IN v = max_end_time
    ELSE TRUE

\* MeditationSession(**kwargs) returns an object (TRUE) or raises (FALSE)
MeditationSessionValid(kwargs) ==
    \A k \in DOMAIN FieldOrder :
        /\ FieldValid(FieldOrder[k], kwargs)
        /\ FieldOrder[k] = "duration_seconds" =>
               check_duration_matches_segments(kwargs.duration_seconds,
                                               ValuesBefore(k, kwargs))

MakeSegment(s, e) == [start_time_seconds |-> s, end_time_seconds |-> e]

MakeKwargs(d, segs) ==
    [title |-> "t", duration_seconds |-> d, theme |-> "th",
     difficulty |-> "beginner", background_music |-> None, segments |-> segs]

\* the maximum end time over the segments of a session with segments
MaxEndTime(kwargs) ==
    Max({kwargs.segments[i].end_time_seconds : i \in DOMAIN kwargs.segments})

\* -------------------------------------------- action parameter payloads
\* the parameter classes of models.py, as records tagged by their class
SpeakParameters(text) == [class |-> "SpeakParameters", text |-> text]

PauseParameters(reason) == [class |-> "PauseParameters", reason |-> reason]

BreathCueParameters(phase, text) ==
    [class |-> "BreathCueParameters", phase |-> phase, sound |-> None, text |-> text]

BreathingCycleParameters(inhale_cue, exhale_cue) ==
    [class |-> "BreathingCycleParameters", inhale_seconds |-> 4,
     hold_seconds |-> 0, exhale_seconds |-> 6, rest_seconds |-> 2,
     repetitions |-> 3, inhale_cue |-> inhale_cue, exhale_cue |-> exhale_cue]

SilenceParameters(type) == [class |-> "SilenceParameters", type |-> type]

\* MusicParameters(track_id=..., volume=0.3): the volume as its decimal text
MusicParameters(track_id, volume) ==
    [class |-> "MusicParameters", track_id |-> track_id, volume |-> volume,
     fade_duration |-> None]

\* ---------------------------------- ActionParameterGeneratorTool._run
\* the values of the ActionType enumeration
ActionType ==
    { "speak", "pause", "inhale_cue", "exhale_cue", "breathing_cycle",
      "silence", "transition_cue", "segment_timer", "play", "fade_in",
      "fade_out", "volume_change" }

\* the values of the SegmentType enumeration
SegmentType ==
    { "opening", "breathwork", "body_awareness", "visualization", "silence",
      "affirmation", "closing", "custom", "grounding", "deepening" }

\* Python values that content_info carries: None, a dict, a str
PyNone == [type |-> "None"]
PyDict(items) == [type |-> "dict", items |-> items]
PyStr(value) == [type |-> "str", value |-> value]

\* bool(v) of such a value
Truthy(v) ==
    CASE v.type = "None" -> FALSE
      [] v.type = "dict" -> DOMAIN v.items # {}
      [] v.type = "str" -> v.value # ""

\* d.get(k, default) of a mapping d
dict_get(d, k, default) == IF k \in DOMAIN d THEN d[k] ELSE default

\* (mutant) the table and the branches of lines 160-195 disagree
_default_parameters_Diverged ==
    [pause |-> PauseParameters("Pause"),
     silence |-> SilenceParameters("rest"),
     transition_cue |-> SpeakParameters("Next")]

\* _default_parameters: the payloads that do not depend on the segment type
_default_parameters ==
    [pause |-> PauseParameters("Allow for reflection"),
     silence |-> SilenceParameters("reflection"),
     transition_cue |-> SpeakParameters("Transitioning")]

\* default_content, lines 90-135
default_content ==
    [opening |->
        [voice_texts |->
            << "Welcome to this inner peace meditation.",
               "Find a comfortable position and allow yourself to settle.",
               "Take a deep breath in, and slowly exhale.",
               "Let's begin our practice together." >>,
         breath_cues |-> [inhale |-> "Breathe in deeply",
                          exhale |-> "Release and let go"]],
     breathwork |->
        [voice_texts |->
            << "Bring your attention to your breath.",
               "Notice the natural rhythm of your breathing.",
               "Allow your breath to deepen naturally.",
               "With each breath, release any tension you may be holding." >>,
         breath_cues |-> [inhale |-> "Inhale deeply through your nose",
                          exhale |-> "Exhale completely through your mouth"]],
     guidance |->
        [voice_texts |->
            << "Allow your awareness to rest gently in the present moment.",
               "Notice any thoughts or feelings without judgment.",
               "Observe your experience with a sense of curiosity and kindness.",
               "Let go of any expectations and simply be here now." >>,
         breath_cues |-> [inhale |-> "Breathe in with awareness",
                          exhale |-> "Release and let go completely"]],
     closing |->
        [voice_texts |->
            << "Begin to deepen your breath.",
               "Gently wiggle your fingers and toes.",
               "When you're ready, slowly open your eyes.",
               "Carry this peace with you throughout your day." >>]]

\* lines 82 and 206: f"{action_type}_{segment_type}"
cache_key(action_type, segment_type) == action_type \o "_" \o segment_type

\* (mutant) the cache is never consulted
CacheHit_Never(cache, key) == FALSE

\* line 83: cache_key in self._parameter_cache
CacheHit(cache, key) == key \in DOMAIN cache

\* line 87: action_type in self._default_parameters and not content_info
UsesDefault(action_type, content_info) ==
    action_type \in DOMAIN _default_parameters /\ ~Truthy(content_info)

\* line 138: content_info.get(segment_type, {}) if content_info else {}
segment_content(segment_type, content_info) ==
    IF Truthy(content_info)
    THEN dict_get(content_info.items, segment_type, PyDict(<< >>))
    ELSE PyDict(<< >>)

\* lines 141 and 147: default_content.get(segment_type, default_content["opening"])
FallbackEntry(segment_type) ==
    dict_get(default_content, segment_type, default_content["opening"])

\* lines 139-144
voice_texts(segment_type, content_info) ==
    dict_get(segment_content(segment_type, content_info).items, "voice_texts",
             dict_get(FallbackEntry(segment_type), "voice_texts", << >>))

\* lines 145-150
breath_cues(segment_type, content_info) ==
    dict_get(segment_content(segment_type, content_info).items, "breath_cues",
             dict_get(FallbackEntry(segment_type), "breath_cues", << >>))

\* the outcomes of a call: a returned payload, or an exception
Return(value) == [raised |-> FALSE, value |-> value]
Raise(e) == [raised |-> TRUE, error |-> e]

\* lines 201-203: the action type is none of the enumerated ones
Unrecognized == Return(SpeakParameters("Placeholder instruction"))

\* lines 137-203: the payload built for a key that is not cached; a segment
\* entry of content_info that is not a dict has no .get (line 139)
Generated(action_type, segment_type, content_info) ==
    IF segment_content(segment_type, content_info).type # "dict"
    THEN Raise("AttributeError")
    ELSE LET texts == voice_texts(segment_type, content_info)
             cues == breath_cues(segment_type, content_info)
         IN CASE action_type = "speak" ->
                    Return(SpeakParameters(IF texts # << >> THEN texts[1]
                                           ELSE "Take a moment to be present."))
              [] action_type = "pause" ->
                    Return(PauseParameters("Allow for reflection"))
              [] action_type = "inhale_cue" ->
                    Return(BreathCueParameters("inhale",
                               dict_get(cues, "inhale", "Breathe in")))
              [] action_type = "exhale_cue" ->
                    Return(BreathCueParameters("exhale",
                               dict_get(cues, "exhale", "Breathe out")))
              [] action_type = "breathing_cycle" ->
                    Return(BreathingCycleParameters(
                               dict_get(cues, "inhale", "Breathe in"),
                               dict_get(cues, "exhale", "Breathe out")))
              [] action_type = "silence" ->
                    Return(SilenceParameters("reflection"))
              [] action_type = "transition_cue" ->
                    Return(SpeakParameters("Transitioning"))
              [] action_type \in {"play", "fade_in", "fade_out", "volume_change"} ->
                    Return(MusicParameters("ambient_peace", "0.3"))
              [] OTHER -> Unrecognized

\* _run(action_type, segment_type, content_info) with the cache as it is: the
\* outcome, the return statement taken (line 84, 88 or 209) and the cache after
_run(cache, action_type, segment_type, content_info) ==
    LET key == cache_key(action_type, segment_type)
    IN IF CacheHit(cache, key)
       THEN [raised |-> FALSE, value |-> cache[key], source |-> "cache",
             cache |-> cache]
       ELSE IF UsesDefault(action_type, content_info)
       THEN [raised |-> FALSE, value |-> _default_parameters[action_type],
             source |-> "default", cache |-> cache]
       ELSE LET g == Generated(action_type, segment_type, content_info)
            IN IF g.raised
               THEN [raised |-> TRUE, error |-> g.error, cache |-> cache]
               ELSE [raised |-> FALSE, value |-> g.value, source |-> "generated",
                     cache |-> (key :> g.value) @@ cache]

\* the action types a caller passes: the enumerated ones and one that is not
ActionTypeInputs == ActionType \cup {"chant"}

\* the segment types a caller passes: one with voice texts and breath cues in
\* default_content, one with voice texts only, one with no entry
SegmentTypeInputs == {"opening", "closing", "custom"}

\* contextual content with dict entries: voice texts and an inhale cue for
\* opening, an empty list of voice texts for closing
SuppliedContent ==
    PyDict([opening |-> PyDict([voice_texts |-> << "Hello" >>,
                                breath_cues |-> [inhale |-> "In"]]),
            closing |-> PyDict([voice_texts |-> << >>])])

\* contextual content whose entries are texts, not dicts: the beginner texts
\* of content_templates (lines 293-307) under their segment types, with a
\* theme and a type
TemplateContent ==
    PyDict([opening |-> PyStr("Welcome to this peaceful meditation. Find a comfortable position and allow yourself to settle."),
            guidance |-> PyStr("Notice your breath flowing in and out naturally."),
            closing |-> PyStr("Slowly bring your awareness back. Wiggle your fingers and toes. Open your eyes when ready."),
            theme |-> PyStr("peace"),
            type |-> PyStr("mindfulness")])

\* the content_info arguments: None and the two dicts above
ContentInfoInputs == {PyNone, SuppliedContent, TemplateContent}

\* a call of param_generator._run
Call(action_type, segment_type, content_info) ==
    /\ Len(calls) < MaxCalls
    /\ LET ret == _run(_parameter_cache, action_type, segment_type, content_info)
       IN /\ _parameter_cache' = ret.cache
          /\ calls' = Append(calls,
                 [action_type |-> action_type, segment_type |-> segment_type,
                  content_info |-> content_info, before |-> _parameter_cache,
                  ret |-> [f \in DOMAIN ret \ {"cache"} |-> ret[f]]])
    /\ UNCHANGED <<jobVars, draft, session, post, written, streamVars, query>>

\* ------------------------- generate_custom_meditation: post-processing
\* Action and Segment with every field of models.py; the loop reads the type
\* values and the parameters, and a draft's parameters are a Python dict
\* (Dict[str, Any]). An action of a draft is the voice agent's, starts with
\* its segment and lasts one second.
Action(type, parameters) ==
    [agent |-> "VoiceAgent", type |-> type, start_time_seconds |-> 0,
     duration_seconds |-> 1, parameters |-> parameters]

Segment(type, start, end, actions) ==
    [title |-> "s", type |-> type, start_time_seconds |-> start,
     end_time_seconds |-> end, actions |-> actions]

\* hasattr(p, "__dict__"): an instance of a parameters class has one, a dict
\* has none
HasDict(p) == "class" \in DOMAIN p

\* p.__dict__ of such an instance: its fields
ObjectDict(p) == [f \in DOMAIN p \ {"class"} |-> p[f]]

\* (mutant) "and" in place of "or"
NeedsParameters_And(p) == HasDict(p) /\ ObjectDict(p) = << >>

\* lines 78-81: not hasattr(action.parameters, "__dict__")
\*              or not action.parameters.__dict__
NeedsParameters(p) == ~HasDict(p) \/ ObjectDict(p) = << >>

\* the frame of the loop when it starts on session d (lines 50-64)
PostFrame(d) ==
    [pc |-> "L64", session |-> d, i |-> 1, j |-> 1,
     parameter_cache |-> << >>, param_generator |-> << >>]

\* lines 87-90 (and, identically, 97-100): the outcome of param_generator._run
\* for action (i, j)
Generate(f) ==
    LET segment == f.session.segments[f.i]
    IN _run(f.param_generator, segment.actions[f.j].type, segment.type, PyNone)

\* (mutant) the action is built anew from the key and the parameters
Assigned_Rebuilt(f, p, key, cache) ==
    [f EXCEPT !.session.segments[f.i].actions[f.j] = Action(key, p),
              !.parameter_cache = (key :> p) @@ @,
              !.param_generator = cache,
              !.j = @ + 1]

\* action (i, j) gets parameters p; p is cached under key unless it came from
\* parameter_cache; cache is the generator's own cache afterwards
Assigned(f, p, key, cache) ==
    [f EXCEPT !.session.segments[f.i].actions[f.j].parameters = p,
              !.parameter_cache = (key :> p) @@ @,
              !.param_generator = cache,
              !.j = @ + 1]

\* lines 64-100, one pass of the loops' bodies: past the last action of a
\* segment the outer loop moves on; otherwise action (i, j) is processed, and
\* when the call in the try block raises, the handler (lines 91-100) makes
\* it again, whose exception leaves the function through line 109
ProcessOne(f) ==
    IF f.i > Len(f.session.segments)
    THEN [f EXCEPT !.pc = "L122"]
    ELSE IF f.j > Len(f.session.segments[f.i].actions)
    THEN [f EXCEPT !.i = @ + 1, !.j = 1]
    ELSE LET segment == f.session.segments[f.i]
             action == segment.actions[f.j]
             key == cache_key(action.type, segment.type)
         IN IF ~NeedsParameters(action.parameters)
            THEN [f EXCEPT !.j = @ + 1]
            ELSE IF key \in DOMAIN f.parameter_cache
            THEN Assigned(f, f.parameter_cache[key], key, f.param_generator)
            ELSE IF ~Generate(f).raised
            THEN Assigned(f, Generate(f).value, key, Generate(f).cache)
            ELSE LET again == Generate(f)
                 IN IF again.raised
                    THEN [f EXCEPT !.pc = "L109"]
                    ELSE Assigned(f, again.value, key, again.cache)

\* lines 64-122 run to the end: the frame at the return (or at the re-raise)
RECURSIVE RunLoop(_)
RunLoop(f) == IF f.pc = "L64" THEN RunLoop(ProcessOne(f)) ELSE f

\* generate_custom_meditation on the draft d its crew produced: the session
\* it returns
post_processed(d) == RunLoop(PostFrame(d)).session

\* result.model_dump(): an instance of a parameters class found in the
\* parameters field is dumped as the dict of its fields
model_dump(d) ==
    [d EXCEPT !.segments =
        [i \in DOMAIN d.segments |->
            [d.segments[i] EXCEPT !.actions =
                [j \in DOMAIN d.segments[i].actions |->
                    LET a == d.segments[i].actions[j]
                    IN [a EXCEPT !.parameters =
                           IF HasDict(@) THEN PyDict(ObjectDict(@)) ELSE @]]]]]

\* the actions a draft may hold: parameters absent (the default, {}), or given
DraftActions ==
    { Action("speak", PyDict(<< >>)),
      Action("speak", PyDict([text |-> "Draft text"])),
      Action("pause", PyDict(<< >>)) }

\* the segment types of a draft's segments
DraftSegmentTypes == {"opening", "custom"}

ActionLists == UNION {[1..n -> DraftActions] : n \in 0..MaxActions}

\* the ways to deal the actions of acts, in order, to n segments
Placements(acts, n) ==
    {p \in [DOMAIN acts -> 1..n] :
        \A a, b \in DOMAIN acts : a < b => p[a] <= p[b]}

\* the actions dealt to segment k
ActionsOf(acts, p, k) ==
    LET mine == {a \in DOMAIN acts : p[a] = k}
    IN [m \in 1..Cardinality(mine) |->
           acts[(CHOOSE a \in mine : \A b \in mine : a <= b) + m - 1]]

\* The sessions the crew's last task may hand to the post-processing: up to
\* MaxSegments segments holding up to MaxActions actions in all.
PostDrafts ==
    UNION { UNION { UNION {
        { MakeKwargs(IF n = 0 THEN 1 ELSE n,
              [k \in 1..n |->
                  Segment(types[k], k - 1, k, ActionsOf(acts, p, k))]) :
          p \in Placements(acts, n) } :
        acts \in ActionLists } :
        types \in [1..n -> DraftSegmentTypes] } :
        n \in 0..MaxSegments }

\* lines 48-64: the post-processing starts on the crew's session
PostProcessStart ==
    /\ post.pc = "idle"
    /\ post' = PostFrame(draft)
    /\ _parameter_cache' = << >>
    /\ UNCHANGED <<jobVars, draft, session, calls, written, streamVars, query>>

\* lines 64-100: one pass of the loops' bodies
PostProcessStep ==
    /\ post.pc = "L64"
    /\ post' = ProcessOne(post)
    /\ _parameter_cache' = post'.param_generator
    /\ UNCHANGED <<jobVars, draft, session, calls, written, streamVars, query>>

\* line 122: return meditation_session
PostProcessReturn ==
    /\ post.pc = "L122"
    /\ post' = [post EXCEPT !.pc = "returned"]
    /\ UNCHANGED <<jobVars, draft, session, written, _parameter_cache, calls,
                   streamVars, query>>

\* The drafts the Producer's last task may try to build in a job.
Drafts ==
    { MakeKwargs(2, << Segment("opening", 0, 1,
                               << Action("speak", PyDict(<< >>)) >>),
                       Segment("closing", 1, 2,
                               << Action("speak", PyDict([text |-> "Goodbye"])) >>) >>),
      MakeKwargs(3, << Segment("custom", 0, 2,
                               << Action("pause", PyDict(<< >>)) >>) >>),
      MakeKwargs(0, << >>) }

\* ------------------------------------------------------------ the store
\* the result local before generate_custom_meditation has returned
NoSession == [unset |-> TRUE]

\* the exceptions that can be in flight in run_generation_job (str(e))
ProducerFailure == "ProducerFailure"        \* crew.kickoff / post-processing raised
ValidationFailure == "ValidationFailure"    \* MeditationSession(...) raised
PersistenceFailure == "PersistenceFailure"  \* collection.insert_one raised
StoreFailure == "StoreFailure"              \* a redis call raised

Terminal == {"completed", "failed"}

\* the literal progress snapshots of run_generation_job
StartingProgress ==
    json_dumps(<< <<"stage", <<"starting">> >>,
                  <<"details", <<"Initializing agents">> >> >>)

CompletedProgress(inserted_id) ==
    json_dumps(<< <<"stage", <<"completed">> >>,
                  <<"details", <<"Session generated">> >>,
                  <<"session", <<ToString(inserted_id)>> >> >>)

\* a stream session nobody has opened yet
NoFrame ==
    [pc |-> "unopened", job_id |-> UnknownId, heartbeat_interval |-> 0,
     last_status |-> None, last_progress |-> NoText, last_heartbeat |-> 0,
     status |-> None, progress |-> NoText, wake |-> 0,
     events |-> << >>, polls |-> 0, open_status |-> None, emit_at |-> 0,
     connected |-> TRUE]

\* no API request in progress
NoQuery == [pc |-> "idle"]

\* generate_custom_meditation has not reached its post-processing
NoPost == [pc |-> "idle"]

\* (mutant) uuid4 may return an id it returned before
FreshIds_Reused == JobIds

\* the ids uuid.uuid4() can return: the ones it has not returned before
FreshIds == JobIds \ allocated

InitJobs ==
    /\ status = [j \in JobIds |-> None]
    /\ progress = [j \in JobIds |-> NoText]
    /\ error = [j \in JobIds |-> None]
    /\ result_path = [j \in JobIds |-> None]
    /\ collection = << >>
    /\ sys_stdout = 0
    /\ sys_stderr = 0
    /\ allocated = {}
    /\ tasks = [j \in JobIds |-> 0]
    /\ executions = [j \in JobIds |-> 0]
    /\ pc = [j \in JobIds |-> "idle"]
    /\ old_stdout = [j \in JobIds |-> 0]
    /\ old_stderr = [j \in JobIds |-> 0]
    /\ result = [j \in JobIds |-> NoSession]
    /\ exc = [j \in JobIds |-> None]
    /\ progressBy = [j \in JobIds |-> 0]

InitObservers ==
    /\ sess = [s \in SessionIds |-> NoFrame]
    /\ clock = 0
    /\ query = NoQuery
    /\ written = << >>

InitTool ==
    /\ _parameter_cache = << >>
    /\ calls = << >>
    /\ post = NoPost

Init ==
    /\ InitJobs
    /\ InitObservers
    /\ InitTool
    /\ draft = MakeKwargs(1, << >>)
    /\ session = "unbuilt"

\* ---------------------------------------------------------- submission
\* generate_meditation: a fresh id, status=queued, one background task
generate_meditation(j) ==
    /\ j \in FreshIds
    /\ allocated' = allocated \cup {j}
    /\ status' = [status EXCEPT ![j] = "queued"]
    /\ tasks' = [tasks EXCEPT ![j] = @ + 1]
    /\ UNCHANGED <<progress, error, result_path, collection, sys_stdout,
                   sys_stderr, executions, pc, old_stdout, old_stderr, result,
                   exc, progressBy, envVars>>

\* the server runs a scheduled background task: run_generation_job is entered
StartTask(j) ==
    /\ tasks[j] > 0
    /\ pc[j] \in {"idle", "done", "crashed"}
    /\ tasks' = [tasks EXCEPT ![j] = @ - 1]
    /\ executions' = [executions EXCEPT ![j] = @ + 1]
    /\ pc' = [pc EXCEPT ![j] = "L44"]
    /\ exc' = [exc EXCEPT ![j] = None]
    /\ result' = [result EXCEPT ![j] = NoSession]
    /\ UNCHANGED <<status, progress, error, result_path, collection,
                   sys_stdout, sys_stderr, allocated, old_stdout, old_stderr,
                   progressBy, envVars>>

\* ------------------------------------------------- run_generation_job
\* a statement of the outer try block raises e: control goes to the handler
RaiseOuter(j, e) ==
    /\ exc' = [exc EXCEPT ![j] = e]
    /\ pc' = [pc EXCEPT ![j] = "L80"]

\* line 44: r.set(status, "running")
SetRunning(j) ==
    /\ pc[j] = "L44"
    /\ \/ /\ status' = [status EXCEPT ![j] = "running"]
          /\ pc' = [pc EXCEPT ![j] = "L45"]
          /\ UNCHANGED exc
       \/ /\ RaiseOuter(j, StoreFailure)
          /\ UNCHANGED status
    /\ UNCHANGED <<progress, error, result_path, collection, sys_stdout,
                   sys_stderr, allocated, tasks, executions, old_stdout,
                   old_stderr, result, progressBy, envVars>>

\* line 45: r.set(progress, {"stage": "starting", ...})
SetStarting(j) ==
    /\ pc[j] = "L45"
    /\ \/ /\ progress' = [progress EXCEPT ![j] = StartingProgress]
          /\ progressBy' = [progressBy EXCEPT ![j] = j]
          /\ pc' = [pc EXCEPT ![j] = "L59"]
          /\ UNCHANGED exc
       \/ /\ RaiseOuter(j, StoreFailure)
          /\ UNCHANGED <<progress, progressBy>>
    /\ UNCHANGED <<status, error, result_path, collection, sys_stdout,
                   sys_stderr, allocated, tasks, executions, old_stdout,
                   old_stderr, result, envVars>>

\* line 59: old_stdout = sys.stdout
SaveStdout(j) ==
    /\ pc[j] = "L59"
    /\ old_stdout' = [old_stdout EXCEPT ![j] = sys_stdout]
    /\ pc' = [pc EXCEPT ![j] = "L60"]
    /\ UNCHANGED <<status, progress, error, result_path, collection,
                   sys_stdout, sys_stderr, allocated, tasks, executions,
                   old_stderr, result, exc, progressBy, envVars>>

\* line 60: old_stderr = sys.stderr
SaveStderr(j) ==
    /\ pc[j] = "L60"
    /\ old_stderr' = [old_stderr EXCEPT ![j] = sys_stderr]
    /\ pc' = [pc EXCEPT ![j] = "L61"]
    /\ UNCHANGED <<status, progress, error, result_path, collection,
                   sys_stdout, sys_stderr, allocated, tasks, executions,
                   old_stdout, result, exc, progressBy, envVars>>

\* line 61: sys.stdout = DummyFile()
InstallStdout(j) ==
    /\ pc[j] = "L61"
    /\ sys_stdout' = j
    /\ pc' = [pc EXCEPT ![j] = "L62"]
    /\ UNCHANGED <<status, progress, error, result_path, collection,
                   sys_stderr, allocated, tasks, executions, old_stdout,
                   old_stderr, result, exc, progressBy, envVars>>

\* line 62: sys.stderr = DummyFile()
InstallStderr(j) ==
    /\ pc[j] = "L62"
    /\ sys_stderr' = j
    /\ pc' = [pc EXCEPT ![j] = "L64"]
    /\ UNCHANGED <<status, progress, error, result_path, collection,
                   sys_stdout, allocated, tasks, executions, old_stdout,
                   old_stderr, result, exc, progressBy, envVars>>

\* a statement inside the inner try raises e: the finally block runs first
RaiseInner(j, e) ==
    /\ exc' = [exc EXCEPT ![j] = e]
    /\ pc' = [pc EXCEPT ![j] = "L71"]

Sink(stream) == IF stream = "stdout" THEN sys_stdout ELSE sys_stderr

\* lines 64-69, a print of the Producer running in job j's thread: the text goes
\* to whatever sys.stdout / sys.stderr is at that moment; a DummyFile of job k
\* runs write(x) (lines 48-57), whose r.set may raise into the Producer
Emission(j, stream, x) ==
    /\ pc[j] = "L64"
    /\ LET k == Sink(stream)
           text == DummyFileWrite(x)
       IN IF k = 0 \/ text = NoText
          THEN UNCHANGED <<progress, progressBy, pc, exc>>
          ELSE \/ /\ progress' = [progress EXCEPT ![k] = text]
                  /\ progressBy' = [progressBy EXCEPT ![k] = j]
                  /\ UNCHANGED <<pc, exc>>
               \/ /\ RaiseInner(j, StoreFailure)
                  /\ UNCHANGED <<progress, progressBy>>
    /\ UNCHANGED <<status, error, result_path, collection, sys_stdout,
                   sys_stderr, allocated, tasks, executions, old_stdout,
                   old_stderr, result>>

ProducerEmit(j, stream, x) ==
    /\ Emission(j, stream, x)
    /\ UNCHANGED envVars

\* the same print, with the call of write recorded: the text, the thread that
\* printed, the job whose DummyFile received it, the keys of the store before
\* and after, and whether write raised
ProducerWrite(j, stream, x) ==
    /\ Len(written) < MaxWrites
    /\ Sink(stream) # 0
    /\ Emission(j, stream, x)
    /\ written' = Append(written,
                     [thread |-> j, sink |-> Sink(stream), x |-> x,
                      before |-> [status |-> status, progress |-> progress,
                                  error |-> error],
                      after |-> [status |-> status', progress |-> progress',
                                 error |-> error'],
                      raised |-> exc'[j] # exc[j]])
    /\ UNCHANGED <<draft, session, toolVars, sess, clock, query>>

\* lines 64-69, generate_custom_meditation returns the session its last task
\* built from kwargs, post-processed, or the construction raises
ProducerReturn(j, kwargs) ==
    /\ pc[j] = "L64"
    /\ IF MeditationSessionValid(kwargs)
       THEN /\ result' = [result EXCEPT ![j] = post_processed(kwargs)]
            /\ pc' = [pc EXCEPT ![j] = "L71"]
            /\ UNCHANGED exc
       ELSE /\ RaiseInner(j, ValidationFailure)
            /\ UNCHANGED result
    /\ UNCHANGED <<status, progress, error, result_path, collection,
                   sys_stdout, sys_stderr, allocated, tasks, executions,
                   old_stdout, old_stderr, progressBy, envVars>>

\* lines 64-69, generate_custom_meditation raises (crew.kickoff or the
\* post-processing failed and re-raised)
ProducerRaise(j) ==
    /\ pc[j] = "L64"
    /\ RaiseInner(j, ProducerFailure)
    /\ UNCHANGED <<status, progress, error, result_path, collection,
                   sys_stdout, sys_stderr, allocated, tasks, executions,
                   old_stdout, old_stderr, result, progressBy, envVars>>

\* line 71 (finally): sys.stdout = old_stdout
RestoreStdout(j) ==
    /\ pc[j] = "L71"
    /\ sys_stdout' = old_stdout[j]
    /\ pc' = [pc EXCEPT ![j] = "L72"]
    /\ UNCHANGED <<status, progress, error, result_path, collection,
                   sys_stderr, allocated, tasks, executions, old_stdout,
                   old_stderr, result, exc, progressBy, envVars>>

\* line 72 (finally): sys.stderr = old_stderr; then the exception in flight,
\* if any, reaches the handler of the outer try
RestoreStderr(j) ==
    /\ pc[j] = "L72"
    /\ sys_stderr' = old_stderr[j]
    /\ pc' = [pc EXCEPT ![j] = IF exc[j] = None THEN "L76" ELSE "L80"]
    /\ UNCHANGED <<status, progress, error, result_path, collection,
                   sys_stdout, allocated, tasks, executions, old_stdout,
                   old_stderr, result, exc, progressBy, envVars>>

\* (mutant) the document is stored without the id of its job
Document_Unkeyed(j) ==
    [_id |-> Len(collection) + 1, job_id |-> UnknownId, user_id |-> None,
     session |-> model_dump(result[j])]

\* the document insert_one stores at line 76
Document(j) ==
    [_id |-> Len(collection) + 1, job_id |-> j, user_id |-> None,
     session |-> model_dump(result[j])]

\* res_doc.inserted_id of job j's insert
InsertedId(j) ==
    LET mine == {i \in DOMAIN collection : collection[i].job_id = j}
    IN collection[Max(mine)]._id

\* line 76: collection.insert_one(...)
InsertOne(j) ==
    /\ pc[j] = "L76"
    /\ \/ /\ collection' = Append(collection, Document(j))
          /\ pc' = [pc EXCEPT ![j] = "L77"]
          /\ UNCHANGED exc
       \/ /\ RaiseOuter(j, PersistenceFailure)
          /\ UNCHANGED collection
    /\ UNCHANGED <<status, progress, error, result_path, sys_stdout,
                   sys_stderr, allocated, tasks, executions, old_stdout,
                   old_stderr, result, progressBy, envVars>>

\* line 77: r.set(status, "completed")
SetCompleted(j) ==
    /\ pc[j] = "L77"
    /\ \/ /\ status' = [status EXCEPT ![j] = "completed"]
          /\ pc' = [pc EXCEPT ![j] = "L78"]
          /\ UNCHANGED exc
       \/ /\ RaiseOuter(j, StoreFailure)
          /\ UNCHANGED status
    /\ UNCHANGED <<progress, error, result_path, collection, sys_stdout,
                   sys_stderr, allocated, tasks, executions, old_stdout,
                   old_stderr, result, progressBy, envVars>>

\* line 78: r.set(progress, {"stage": "completed", ..., "session": str(inserted_id)})
SetCompletedProgress(j) ==
    /\ pc[j] = "L78"
    /\ \/ /\ progress' = [progress EXCEPT ![j] = CompletedProgress(InsertedId(j))]
          /\ progressBy' = [progressBy EXCEPT ![j] = j]
          /\ pc' = [pc EXCEPT ![j] = "done"]
          /\ UNCHANGED exc
       \/ /\ RaiseOuter(j, StoreFailure)
          /\ UNCHANGED <<progress, progressBy>>
    /\ UNCHANGED <<status, error, result_path, collection, sys_stdout,
                   sys_stderr, allocated, tasks, executions, old_stdout,
                   old_stderr, result, envVars>>

\* line 80 (except Exception as e): r.set(status, "failed"); when this call
\* raises, the exception leaves run_generation_job
SetFailed(j) ==
    /\ pc[j] = "L80"
    /\ \/ /\ status' = [status EXCEPT ![j] = "failed"]
          /\ pc' = [pc EXCEPT ![j] = "L81"]
       \/ /\ pc' = [pc EXCEPT ![j] = "crashed"]
          /\ UNCHANGED status
    /\ UNCHANGED <<progress, error, result_path, collection, sys_stdout,
                   sys_stderr, allocated, tasks, executions, old_stdout,
                   old_stderr, result, exc, progressBy, envVars>>

\* line 81: the text str(e) recorded for the exception the handler caught
ErrorText(j) == exc[j]

\* line 81: r.set(error, str(e))
SetError(j) ==
    /\ pc[j] = "L81"
    /\ \/ /\ error' = [error EXCEPT ![j] = ErrorText(j)]
          /\ pc' = [pc EXCEPT ![j] = "done"]
       \/ /\ pc' = [pc EXCEPT ![j] = "crashed"]
          /\ UNCHANGED error
    /\ UNCHANGED <<status, progress, result_path, collection, sys_stdout,
                   sys_stderr, allocated, tasks, executions, old_stdout,
                   old_stderr, result, exc, progressBy, envVars>>

\* the statements of run_generation_job other than the Producer's prints
JobStatement(j) ==
    \/ SetRunning(j)
    \/ SetStarting(j)
    \/ SaveStdout(j)
    \/ SaveStderr(j)
    \/ InstallStdout(j)
    \/ InstallStderr(j)
    \/ \E kwargs \in Drafts : ProducerReturn(j, kwargs)
    \/ ProducerRaise(j)
    \/ RestoreStdout(j)
    \/ RestoreStderr(j)
    \/ InsertOne(j)
    \/ SetCompleted(j)
    \/ SetCompletedProgress(j)
    \/ SetFailed(j)
    \/ SetError(j)

\* one step of the thread that runs run_generation_job(j, req)
run_generation_job(j) ==
    \/ JobStatement(j)
    \/ \E stream \in {"stdout", "stderr"}, x \in Lines : ProducerEmit(j, stream, x)

\* ------------------------------------------------------- store reads
\* r.get(f"job:{job_id}:status") and the like, when the call returns; a key
\* never set reads as None
GetStatus(j) == IF j \in JobIds THEN status[j] ELSE None
GetProgress(j) == IF j \in JobIds THEN progress[j] ELSE NoText
GetError(j) == IF j \in JobIds THEN error[j] ELSE None
GetResultPath(j) == IF j \in JobIds THEN result_path[j] ELSE None

\* the ids a client can ask about: the ones a submission returned, and one
\* that no submission returned
KnownIds == allocated \cup {UnknownId}

\* ------------------------------------------------- sse_event_generator
\* the heartbeat_seconds a subscriber may pass
HeartbeatIntervals == {1, 2}

\* line 96: status != last_status or progress != last_progress
Changed(f) == f.status # f.last_status \/ f.progress # f.last_progress

\* lines 97-106: the data of a change event
EventData(f) ==
    ("status" :> f.status)
    @@ (IF f.progress # NoText
        THEN "progress" :> json_loads(f.progress)
        ELSE << >>)
    @@ (IF f.status = "completed"
        THEN "id" :> f.job_id
        ELSE IF f.status = "failed"
             THEN "error" :> GetError(f.job_id)
             ELSE << >>)

\* line 113: not event_sent and now - last_heartbeat >= heartbeat_interval
HeartbeatDue(f, event_sent, now) ==
    ~event_sent /\ now - f.last_heartbeat >= f.heartbeat_interval

\* line 114: the data of a heartbeat
HeartbeatData(f) ==
    ("status" :> (IF f.status # None THEN f.status ELSE "running"))
    @@ ("heartbeat" :> TRUE)

\* (mutant) the loop ends on completed only
ShouldBreak_CompletedOnly(st) == st = "completed"

\* line 118: status in ("completed", "failed")
ShouldBreak(st) == st \in {"completed", "failed"}

\* where a generator that has started and not returned can stand: before
\* line 90, 91 or 92, suspended at the yield of line 107 or 114, or in the
\* sleep of line 121, or, with the time of line 92 read, before the read of
\* the error key at line 106
GeneratorLines == {"L90", "L91", "L92", "L106", "L107", "L114", "L121"}

\* the two yields
Yields == {"L107", "L114"}

\* stream_status: the generator starts, lines 85-87
stream_status(s, j, hb) ==
    /\ sess[s].pc = "unopened"
    /\ j \in KnownIds
    /\ sess' = [sess EXCEPT ![s] =
                   [NoFrame EXCEPT !.pc = "L90", !.job_id = j,
                                   !.heartbeat_interval = hb,
                                   !.last_heartbeat = clock,
                                   !.open_status = GetStatus(j),
                                   !.emit_at = clock]]
    /\ UNCHANGED <<jobVars, modelVars, clock, query>>

\* lines 118-121 at time now: the break, or time.sleep(1) begins
Paused(f, now) ==
    [f EXCEPT !.pc = IF ShouldBreak(f.status) THEN "done" ELSE "L121",
              !.wake = IF ShouldBreak(f.status) THEN @ ELSE now + 1]

\* lines 92-121 up to the next read of the store or the first yield:
\* now = time.time(); a change with status failed goes to the read of the
\* error key (line 106); any other change event is yielded at line 107, or
\* the heartbeat at line 114, and the generator is suspended there; an
\* iteration that yields nothing goes on to the break or the sleep
Iterated(f, now) ==
    LET changed == Changed(f)
        beat == HeartbeatDue(f, changed, now)
    IN IF changed /\ f.status = "failed"
       THEN [f EXCEPT !.emit_at = now, !.pc = "L106"]
       ELSE IF changed
       THEN [f EXCEPT !.events = Append(@, EventData(f)),
                      !.emit_at = now,
                      !.pc = "L107"]
       ELSE IF beat
       THEN [f EXCEPT !.events = Append(@, HeartbeatData(f)),
                      !.emit_at = now,
                      !.pc = "L114"]
       ELSE Paused(f, now)

\* lines 108-121, when the generator is resumed at time t after the yield of
\* line 107: the pair is recorded, event_sent is True, and line 113 compares
\* the time read at line 92
AfterEvent(f, t) ==
    LET g == [f EXCEPT !.last_status = f.status, !.last_progress = f.progress]
    IN IF HeartbeatDue(g, TRUE, f.emit_at)
       THEN [g EXCEPT !.events = Append(@, HeartbeatData(g)), !.pc = "L114"]
       ELSE Paused(g, t)

\* lines 115-121, when the generator is resumed at time t after the yield of
\* line 114: last_heartbeat = now, the time read at line 92
AfterHeartbeat(f, t) ==
    Paused([f EXCEPT !.last_heartbeat = f.emit_at], t)

\* the next statement of the generator standing at f.pc at time now, when it
\* does not raise: line 90 (status = r.get), line 91 (progress = r.get), lines
\* 92-121 up to the next read or yield, lines 106-107 (data["error"] = r.get
\* and the event is yielded), the resumption after a yield, or the return of
\* time.sleep(1)
FrameStep(f, now) ==
    CASE f.pc = "L90" ->
           [f EXCEPT !.status = GetStatus(f.job_id), !.polls = @ + 1, !.pc = "L91"]
      [] f.pc = "L91" ->
           [f EXCEPT !.progress = GetProgress(f.job_id), !.pc = "L92"]
      [] f.pc = "L92" -> Iterated(f, now)
      [] f.pc = "L106" ->
           [f EXCEPT !.events = Append(@, EventData(f)), !.pc = "L107"]
      [] f.pc = "L107" -> AfterEvent(f, now)
      [] f.pc = "L114" -> AfterHeartbeat(f, now)
      [] f.pc = "L121" -> [f EXCEPT !.pc = "L90", !.wake = 0]

\* what the next statement can make of the frame f: it runs, or, at a line
\* that calls r.get (90, 91, 106), the call raises (the connection to redis
\* is lost); nothing in the generator catches the exception, so the generator
\* ends there and yields nothing more
Outcomes(f, now) ==
    {FrameStep(f, now)}
        \cup (IF f.pc \in {"L90", "L91", "L106"}
              THEN {[f EXCEPT !.pc = "raised", !.wake = 0]}
              ELSE {})

\* line 90: status = r.get(status key), or the call raises
ReadStatus(s) ==
    /\ sess[s].pc = "L90"
    /\ \E g \in Outcomes(sess[s], clock) : sess' = [sess EXCEPT ![s] = g]
    /\ UNCHANGED <<jobVars, modelVars, clock, query>>

\* line 91: progress = r.get(progress key), or the call raises
ReadProgress(s) ==
    /\ sess[s].pc = "L91"
    /\ \E g \in Outcomes(sess[s], clock) : sess' = [sess EXCEPT ![s] = g]
    /\ UNCHANGED <<jobVars, modelVars, clock, query>>

\* lines 92-105, 92-114, or 92-121 when nothing is yielded
EmitAndContinue(s) ==
    /\ sess[s].pc = "L92"
    /\ sess' = [sess EXCEPT ![s] = Iterated(sess[s], clock)]
    /\ UNCHANGED <<jobVars, modelVars, clock, query>>

\* lines 106-107: the error key is read and the failed event yielded, or
\* r.get raises and no event is yielded
ReadError(s) ==
    /\ sess[s].pc = "L106"
    /\ \E g \in Outcomes(sess[s], clock) : sess' = [sess EXCEPT ![s] = g]
    /\ UNCHANGED <<jobVars, modelVars, clock, query>>

\* the server asks for the next chunk: lines 108-121
ResumeAfterEvent(s) ==
    /\ sess[s].pc = "L107"
    /\ sess' = [sess EXCEPT ![s] = AfterEvent(sess[s], clock)]
    /\ UNCHANGED <<jobVars, modelVars, clock, query>>

\* the server asks for the next chunk: lines 115-121
ResumeAfterHeartbeat(s) ==
    /\ sess[s].pc = "L114"
    /\ sess' = [sess EXCEPT ![s] = AfterHeartbeat(sess[s], clock)]
    /\ UNCHANGED <<jobVars, modelVars, clock, query>>

\* line 121: time.sleep(1) returns once a second has passed
Wake(s) ==
    /\ sess[s].pc = "L121"
    /\ clock >= sess[s].wake
    /\ sess' = [sess EXCEPT ![s] = FrameStep(sess[s], clock)]
    /\ UNCHANGED <<jobVars, modelVars, clock, query>>

\* a second passes
Tick ==
    /\ clock < MaxTime
    /\ clock' = clock + 1
    /\ UNCHANGED <<jobVars, modelVars, sess, query>>

sse_event_generator(s) ==
    \/ ReadStatus(s)
    \/ ReadProgress(s)
    \/ EmitAndContinue(s)
    \/ ReadError(s)
    \/ ResumeAfterEvent(s)
    \/ ResumeAfterHeartbeat(s)
    \/ Wake(s)

\* ----------------------------------------------------------- queries
\* the answer when a call of the store raises inside an endpoint: nothing
\* catches the exception and the server answers 500
InternalServerError(op, j) ==
    [pc |-> "responded", op |-> op, job_id |-> j, code |-> 500]

\* check_status, lines 133-135: the status read, and the 404 when it is
\* empty; or r.get raises
CheckStatusBegin(j) ==
    /\ query.pc = "idle"
    /\ j \in KnownIds
    /\ \/ query' = IF GetStatus(j) = None
                   THEN [pc |-> "responded", op |-> "check_status",
                         job_id |-> j, code |-> 404]
                   ELSE [pc |-> "L136", op |-> "check_status", job_id |-> j,
                         status |-> GetStatus(j)]
       \/ query' = InternalServerError("check_status", j)
    /\ UNCHANGED <<jobVars, modelVars, streamVars>>

\* line 136: result_path = r.get(result_path key), or the call raises
CheckStatusResultPath ==
    /\ query.pc = "L136"
    /\ \/ query' = [pc |-> "L137", op |-> "check_status",
                    job_id |-> query.job_id, status |-> query.status,
                    result_path |-> GetResultPath(query.job_id)]
       \/ query' = InternalServerError("check_status", query.job_id)
    /\ UNCHANGED <<jobVars, modelVars, streamVars>>

\* lines 137-138: error = r.get(error key) and the response, or the call
\* raises
CheckStatusError ==
    /\ query.pc = "L137"
    /\ \/ query' = [pc |-> "responded", op |-> "check_status",
                    job_id |-> query.job_id, code |-> 200,
                    status |-> query.status, result_path |-> query.result_path,
                    error |-> GetError(query.job_id)]
       \/ query' = InternalServerError("check_status", query.job_id)
    /\ UNCHANGED <<jobVars, modelVars, streamVars>>

\* collection.find_one({"job_id": job_id}): the first match, or NoSession
find_one(j) ==
    LET hits == {i \in DOMAIN collection : collection[i].job_id = j}
    IN IF hits = {} THEN NoSession
       ELSE collection[CHOOSE i \in hits : \A k \in hits : i <= k]

\* lines 153-160: what get_result(job_id) answers
get_result_response(j) ==
    LET doc == find_one(j)
    IN IF doc = NoSession
       THEN [pc |-> "responded", op |-> "get_result", job_id |-> j, code |-> 404]
       ELSE [pc |-> "responded", op |-> "get_result", job_id |-> j, code |-> 200,
             doc |-> [job_id |-> doc.job_id, user_id |-> doc.user_id,
                      session |-> doc.session]]

\* get_result: the answer of lines 155-160, or find_one raises at line 154
get_result(j) ==
    /\ query.pc = "idle"
    /\ j \in KnownIds
    /\ \/ query' = get_result_response(j)
       \/ query' = InternalServerError("get_result", j)
    /\ UNCHANGED <<jobVars, modelVars, streamVars>>

\* the response is sent; the next request can be served
Respond ==
    /\ query.pc = "responded"
    /\ query' = NoQuery
    /\ UNCHANGED <<jobVars, modelVars, streamVars>>

\* --------------------------------------------- building a session
\* the keyword arguments tried: any declared duration, any short list of segments
SegmentInputs ==
    {MakeSegment(a, b) : a \in 0..MaxEnd, b \in 0..MaxEnd}

SegmentLists ==
    UNION {[1..n -> SegmentInputs] : n \in 0..MaxSegments}

\* MeditationSession(**draft): the object, or the ValidationError
Construct ==
    /\ session = "unbuilt"
    /\ session' = IF MeditationSessionValid(draft) THEN "built" ELSE "ValidationError"
    /\ UNCHANGED <<jobVars, draft, toolVars, written, streamVars, query>>

\* ------------------------------------------------------ specifications
\* Concurrent jobs: submissions and the threads of their background tasks.
NextJobs ==
    \E j \in JobIds :
        \/ generate_meditation(j)
        \/ StartTask(j)
        \/ run_generation_job(j)

SpecJobs == Init /\ [][NextJobs]_vars

\* One submitted job, observed by stream sessions while it runs.
NextStream ==
    \/ \E j \in JobIds :
          \/ allocated = {} /\ generate_meditation(j)
          \/ StartTask(j)
          \/ run_generation_job(j)
    \/ \E s \in LoneSession :
          \/ \E j \in JobIds \cup {UnknownId}, hb \in HeartbeatIntervals :
                stream_status(s, j, hb)
          \/ sse_event_generator(s)
    \/ Tick

SpecStream == Init /\ [][NextStream]_vars

\* ------------------------------------- stream sessions over unbounded time
\* A session that stays open for ever: the events a generator yielded are sent
\* and gone once it is resumed, and only the differences between the clock and
\* the times a frame holds matter to the code (lines 113, 121).

\* the frame g that a step made of the frame f, holding only the events this
\* step yielded, and the time read at line 92 only as long as lines 113 and
\* 115 are still to use it
Resumed(f, g) ==
    [g EXCEPT !.events = SubSeq(g.events, Len(f.events) + 1, Len(g.events)),
              !.polls = 0,
              !.emit_at = IF g.pc \in Yields \cup {"L106"} THEN @ ELSE 0]

\* sse_event_generator is resumed for one statement; a call of r.get may raise
Resume(s) ==
    /\ sess[s].pc \in GeneratorLines
    /\ sess[s].pc = "L121" => clock >= sess[s].wake
    /\ \E g \in Outcomes(sess[s], clock) :
          sess' = [sess EXCEPT ![s] = Resumed(sess[s], g)]
    /\ UNCHANGED <<jobVars, modelVars, clock, query>>

\* the frame f one second later, when the clock is kept where it is
Aged(f) ==
    [f EXCEPT !.last_heartbeat = IF @ > 0 THEN @ - 1 ELSE 0,
              !.wake = IF @ > 0 THEN @ - 1 ELSE 0,
              !.emit_at = IF @ > 0 THEN @ - 1 ELSE 0]

\* a second passes; from MaxTime on the clock is kept and the times of the
\* frames move back instead (MaxTime is at least every heartbeat interval, so
\* no comparison of lines 113 and 121 changes)
Elapse ==
    /\ IF clock < MaxTime
          THEN clock' = clock + 1 /\ UNCHANGED sess
          ELSE clock' = clock /\ sess' = [s \in SessionIds |-> Aged(sess[s])]
    /\ UNCHANGED <<jobVars, modelVars, query>>

NextLive ==
    \/ \E j \in JobIds :
          \/ allocated = {} /\ generate_meditation(j)
          \/ StartTask(j)
          \/ run_generation_job(j)
    \/ \E s \in LoneSession :
          \/ \E j \in JobIds \cup {UnknownId}, hb \in HeartbeatIntervals :
                stream_status(s, j, hb)
          \/ Resume(s)
    \/ Elapse

\* ------------------------------------------------ the subscriber leaves
\* stream_status hands the generator to StreamingResponse and never looks at
\* `request`: the generator has no statement that tests the connection.

\* the subscriber of session s closes the connection; a generator that is
\* suspended at a yield is not asked for another chunk
Disconnect(s) ==
    /\ sess[s].pc \in GeneratorLines
    /\ sess[s].connected
    /\ sess' = [sess EXCEPT ![s].connected = FALSE,
                            ![s].pc = IF @ \in Yields THEN "abandoned" ELSE @]
    /\ UNCHANGED <<jobVars, modelVars, clock, query>>

\* the frame g that a step made of f, as the server leaves it: a generator
\* runs from one yield to the next, so the server can drop it only where it
\* yields; it does so when there is nobody to send the event to
Served(f, g) ==
    IF ~g.connected /\ g.pc \in Yields
    THEN [g EXCEPT !.pc = "abandoned", !.wake = 0]
    ELSE g

\* the server's thread runs the next statement of the generator
Drive(s) ==
    /\ sess[s].pc \in GeneratorLines
    /\ sess[s].pc = "L121" => clock >= sess[s].wake
    /\ \E g \in Outcomes(sess[s], clock) :
          sess' = [sess EXCEPT ![s] = Resumed(sess[s], Served(sess[s], g))]
    /\ UNCHANGED <<jobVars, modelVars, clock, query>>

NextDisconnect ==
    \/ \E j \in JobIds :
          \/ allocated = {} /\ generate_meditation(j)
          \/ StartTask(j)
          \/ run_generation_job(j)
    \/ \E s \in LoneSession :
          \/ \E j \in JobIds \cup {UnknownId}, hb \in HeartbeatIntervals :
                stream_status(s, j, hb)
          \/ Drive(s)
          \/ Disconnect(s)
    \/ Elapse

\* One submitted job, and stream sessions whose subscriber may leave.
SpecDisconnect == Init /\ [][NextDisconnect]_vars

\* Several subscribers of one submitted job, each with a session of its own:
\* the job has the first id, its Producer prints nothing, and every
\* subscriber passes the same heartbeat_seconds.
FirstId == {1}

SharedIntervals == {1}

\* ------------------------------------------------ the worker threads
\* Every endpoint of api.py is a plain def, run_generation_job is a plain
\* function handed to BackgroundTasks, and sse_event_generator is a plain
\* generator handed to StreamingResponse: the server runs each call of an
\* endpoint, each background task, and each next() of a generator in a worker
\* thread, and a thread is taken only while the limiter of the worker threads
\* has a token left. next() returns at a yield (or at the end of the
\* generator), so a generator holds its thread through lines 90-106 and
\* through the sleep of line 121, and gives it back at lines 107 and 114.

\* the tokens of the limiter that are taken: one for every generator that is
\* inside a call of next(), and one for every run_generation_job that has
\* been entered and has not ended
borrowed_tokens ==
    Cardinality({s \in SessionIds : sess[s].pc \in GeneratorLines \ Yields})
        + Cardinality({j \in JobIds : pc[j] \notin {"idle", "done", "crashed"}})

\* the next next() of session s: the next statement when the generator is
\* inside next(), and at a yield the resumption, once a worker thread can be
\* taken (a token of the limiter is left)
iterate_in_threadpool(s) ==
    /\ sess[s].pc \in Yields => borrowed_tokens < MaxThreads
    /\ Resume(s)

\* Several subscribers of one submitted job on a server with MaxThreads worker
\* threads; the sessions are numbered in the order in which they are opened,
\* and they are followed for SessionsHorizon seconds.
NextPool ==
    \/ \E j \in FirstId :
          \/ borrowed_tokens < MaxThreads /\ generate_meditation(j)
          \/ borrowed_tokens < MaxThreads /\ StartTask(j)
          \/ JobStatement(j)
    \/ \E s \in SessionIds :
          \/ \E j \in FirstId, hb \in SharedIntervals :
                /\ \A t \in SessionIds : t < s => sess[t].pc # "unopened"
                /\ borrowed_tokens < MaxThreads
                /\ stream_status(s, j, hb)
          \/ iterate_in_threadpool(s)
    \/ clock < SessionsHorizon /\ Elapse

SpecPool == Init /\ [][NextPool]_vars

\* Time passes, and the server keeps resuming every open generator (the
\* response is iterated until the generator returns, and time.sleep(1)
\* returns). Nothing makes the background task advance: the crew may hang.
SpecLive ==
    /\ Init
    /\ [][NextLive]_vars
    /\ WF_vars(Elapse)
    /\ \A s \in SessionIds : WF_vars(Resume(s))

\* One submitted job, and the status and result queries made while it runs.
NextApi ==
    \/ \E j \in JobIds :
          \/ allocated = {} /\ generate_meditation(j)
          \/ StartTask(j)
          \/ run_generation_job(j)
    \/ \E j \in JobIds \cup {UnknownId} :
          \/ CheckStatusBegin(j)
          \/ get_result(j)
    \/ CheckStatusResultPath
    \/ CheckStatusError
    \/ Respond

SpecApi == Init /\ [][NextApi]_vars

\* One submitted job, with every text its Producer prints recorded.
NextSink ==
    \E j \in JobIds :
        \/ allocated = {} /\ generate_meditation(j)
        \/ StartTask(j)
        \/ JobStatement(j)
        \/ \E stream \in {"stdout", "stderr"}, x \in Lines :
              ProducerWrite(j, stream, x)

SpecSink == Init /\ [][NextSink]_vars

\* The construction of a MeditationSession from any keyword arguments.
InitModels ==
    /\ InitJobs
    /\ InitObservers
    /\ InitTool
    /\ \E d \in 0..MaxDuration, segs \in SegmentLists : draft = MakeKwargs(d, segs)
    /\ session = "unbuilt"

SpecModels == InitModels /\ [][Construct]_vars

\* The parameter generator, called any number of times by any caller.
NextTool ==
    \E action_type \in ActionTypeInputs, segment_type \in SegmentTypeInputs,
       content_info \in ContentInfoInputs :
        Call(action_type, segment_type, content_info)

SpecTool == Init /\ [][NextTool]_vars

\* The post-processing of generate_custom_meditation on any draft.
InitPost ==
    /\ InitJobs
    /\ InitObservers
    /\ InitTool
    /\ draft \in PostDrafts
    /\ session = "unbuilt"

NextPost ==
    \/ PostProcessStart
    \/ PostProcessStep
    \/ PostProcessReturn

SpecPost == InitPost /\ [][NextPost]_vars

\* ------------------------------------------------------------- claims
\* the stage of a status value: queued < running < (completed | failed)
Rank(st) ==
    CASE st = None -> 0
      [] st = "queued" -> 1
      [] st = "running" -> 2
      [] st \in Terminal -> 3

IsHeartbeat(ev) == "heartbeat" \in DOMAIN ev

TerminalEvents(f) == {i \in DOMAIN f.events : f.events[i].status \in Terminal}

\* the exceptions of the Producer, the session construction and the insert
JobFailures == {ProducerFailure, ValidationFailure, PersistenceFailure}

\* C1: every write to a job's status key moves it to the same or a later stage,
\* and a status that is completed or failed never changes again.
C1_StatusMonotonic ==
    [][\A j \in JobIds :
          /\ Rank(status'[j]) >= Rank(status[j])
          /\ status[j] \in Terminal => status'[j] = status[j]]_vars

\* C2: the progress key of a job is written only by that job's own thread
\* (its run_generation_job statements and its own Producer's emissions).
C2_OwnWritesOnly ==
    \A j \in JobIds : progressBy[j] \in {0, j}

\* C3: the statuses of the events a session has emitted never decrease, and
\* an event with status completed or failed is the last one.
C3_EventsOrdered ==
    \A s \in SessionIds :
        LET ev == sess[s].events
        IN \A i, k \in DOMAIN ev :
               i < k => /\ Rank(ev[i].status) <= Rank(ev[k].status)
                        /\ ev[i].status \notin Terminal

C3_Witness ==
    \E s \in SessionIds :
        LET ev == sess[s].events
        IN /\ Len(ev) >= 3
           /\ \E i \in DOMAIN ev : IsHeartbeat(ev[i])
           /\ ev[1].status = "queued"
           /\ ev[Len(ev)].status \in Terminal

\* the generator of frame f has ended: it returned through the break of
\* line 119, or an exception of r.get ended it
Closed(f) == f.pc \in {"done", "raised"}

\* C4: a session closes only by emitting a terminal event: the step in which
\* its generator ends resumes it from the yield of a change event with status
\* completed or failed, that event was yielded in this iteration, it is the
\* last event of the session, and it is the only one with a terminal status.
C4_ClosesOnTerminalEvent ==
    [][\A s \in SessionIds :
          (~Closed(sess[s]) /\ Closed(sess'[s])) =>
              LET ev == sess'[s].events
              IN /\ sess[s].pc = "L107"
                 /\ ev = sess[s].events
                 /\ ev # << >>
                 /\ ev[Len(ev)].status \in Terminal
                 /\ ~IsHeartbeat(ev[Len(ev)])
                 /\ TerminalEvents(sess'[s]) = {Len(ev)}]_vars

\* C5: a session opened when the status is already completed or failed polls
\* once, never sleeps, emits nothing but the terminal change event, and has
\* emitted exactly that one event when it closes.
C5_OpenedAfterTerminal ==
    \A s \in SessionIds :
        LET f == sess[s]
        IN f.open_status \in Terminal =>
              /\ f.pc # "L121"
              /\ f.polls <= 1
              /\ Len(f.events) <= 1
              /\ \A i \in DOMAIN f.events :
                     f.events[i].status \in Terminal /\ ~IsHeartbeat(f.events[i])
              /\ Closed(f) => Len(f.events) = 1

\* C6: once run_generation_job has ended after the Producer, the construction
\* of the session or the insert raised, the status is failed and the error
\* key holds the text of the exception.
C6_FailureAlwaysRecorded ==
    \A j \in JobIds :
        (pc[j] \in {"done", "crashed"} /\ exc[j] \in JobFailures) =>
            status[j] = "failed" /\ error[j] = exc[j]

\* C7: whenever a job's status is failed, get_result for it answers 404.
C7_FailedHasNoArtifact ==
    \A j \in JobIds :
        status[j] = "failed" => get_result_response(j).code = 404

\* C8: a check_status response with status completed carries a result_path.
C8_CompletedHasResultPath ==
    (query.pc = "responded" /\ query.op = "check_status" /\ query.code = 200
        /\ query.status = "completed")
    => query.result_path # None

C10_DurationMatchesSegments ==
    (session = "built" /\ draft.segments # << >>)
    => draft.duration_seconds = MaxEndTime(draft)

\* C11: every document run_generation_job has inserted holds a session whose
\* duration_seconds equals the maximum end_time_seconds of its segments (a
\* draft in which they differ ends in failed, with nothing inserted).
C11_PersistedDurationMatches ==
    \A i \in DOMAIN collection :
        collection[i].session.segments # << >> =>
            collection[i].session.duration_seconds = MaxEndTime(collection[i].session)

\* the classes of the payloads _run is declared to return
PayloadClasses ==
    { "SpeakParameters", "PauseParameters", "BreathCueParameters",
      "BreathingCycleParameters", "SilenceParameters", "MusicParameters" }

\* C13: every call of _run returns a payload and does not raise, whatever the
\* action type (enumerated or not), the segment type (in default_content or
\* not), the contextual content passed with them and the cache left by the
\* calls before it.
C13_GeneratorTotal ==
    \A i \in DOMAIN calls :
        /\ ~calls[i].ret.raised
        /\ calls[i].ret.value.class \in PayloadClasses

\* the cache as the i-th call left it
CacheAfter(i) ==
    IF i < Len(calls) THEN calls[i + 1].before ELSE _parameter_cache

\* C14: two calls of _run with the same action type and segment type that
\* return, return equal payloads; and a call whose key is in the cache
\* returns the payload cached under that key, from the cache lookup, and
\* leaves the cache as it was.
C14_Memoized ==
    /\ \A i, k \in DOMAIN calls :
          (/\ calls[i].action_type = calls[k].action_type
           /\ calls[i].segment_type = calls[k].segment_type
           /\ ~calls[i].ret.raised
           /\ ~calls[k].ret.raised)
          => calls[i].ret.value = calls[k].ret.value
    /\ \A i \in DOMAIN calls :
          LET key == cache_key(calls[i].action_type, calls[i].segment_type)
          IN key \in DOMAIN calls[i].before =>
                /\ ~calls[i].ret.raised
                /\ calls[i].ret.source = "cache"
                /\ calls[i].ret.value = calls[i].before[key]
                /\ CacheAfter(i) = calls[i].before

C14_Witness ==
    /\ Len(calls) >= 2
    /\ calls[1].action_type = "speak" /\ calls[2].action_type = "speak"
    /\ calls[1].segment_type = "opening" /\ calls[2].segment_type = "opening"
    /\ calls[1].content_info = SuppliedContent
    /\ calls[2].content_info = PyNone
    /\ calls[1].ret.source = "generated"
    /\ calls[2].ret.source = "cache"
    /\ calls[2].ret.value = SpeakParameters("Hello")

\* the entry content_info holds for the call's segment type, when there is one
\* and it is a dict; an empty dict otherwise
SuppliedFor(c) ==
    IF /\ c.content_info.type = "dict"
       /\ c.segment_type \in DOMAIN c.content_info.items
       /\ c.content_info.items[c.segment_type].type = "dict"
    THEN c.content_info.items[c.segment_type].items
    ELSE << >>

\* the breath cues that entry supplies
SuppliedCues(c) == dict_get(SuppliedFor(c), "breath_cues", << >>)

\* C15: when a call for a content-dependent action type supplies content for
\* its segment type, the payload returned carries the supplied text: the
\* first supplied voice text for speak, the supplied inhale / exhale cue for
\* the breath kinds, also when the key was resolved before without content.
C15_ContentTakesPrecedence ==
    \A i \in DOMAIN calls :
        LET c == calls[i]
            texts == dict_get(SuppliedFor(c), "voice_texts", << >>)
        IN ~c.ret.raised =>
            /\ (c.action_type = "speak" /\ texts # << >>)
                  => c.ret.value.text = texts[1]
            /\ (c.action_type = "inhale_cue" /\ "inhale" \in DOMAIN SuppliedCues(c))
                  => c.ret.value.text = SuppliedCues(c)["inhale"]
            /\ (c.action_type = "exhale_cue" /\ "exhale" \in DOMAIN SuppliedCues(c))
                  => c.ret.value.text = SuppliedCues(c)["exhale"]
            /\ (c.action_type = "breathing_cycle"
                    /\ "inhale" \in DOMAIN SuppliedCues(c))
                  => c.ret.value.inhale_cue = SuppliedCues(c)["inhale"]
            /\ (c.action_type = "breathing_cycle"
                    /\ "exhale" \in DOMAIN SuppliedCues(c))
                  => c.ret.value.exhale_cue = SuppliedCues(c)["exhale"]

\* parameters that are not empty: a dict with an item, an instance with a field
NonEmpty(p) == IF HasDict(p) THEN ObjectDict(p) # << >> ELSE p.items # << >>

\* C12: when the post-processing loop has ended and the function returns, every
\* action of every segment of the session has non-empty parameters.
C12_AllParametersFilled ==
    post.pc \in {"L122", "returned"} =>
        \A i \in DOMAIN post.session.segments :
            \A j \in DOMAIN post.session.segments[i].actions :
                NonEmpty(post.session.segments[i].actions[j].parameters)

C12_Witness ==
    /\ post.pc = "returned"
    /\ Len(draft.segments) = 2
    /\ \E i \in DOMAIN draft.segments :
           \E j \in DOMAIN draft.segments[i].actions :
              /\ ~NonEmpty(draft.segments[i].actions[j].parameters)
              /\ NonEmpty(post.session.segments[i].actions[j].parameters)
    /\ \E i \in DOMAIN draft.segments : draft.segments[i].actions = << >>

\* C16: an iteration of a session emits a heartbeat only when it emits no
\* change event and at least heartbeat_interval seconds have passed since the
\* session last emitted an event of either kind (since it opened, before its
\* first event).
C16_HeartbeatAfterSilence ==
    [][\A s \in SessionIds :
          LET f == sess[s]
              g == sess'[s]
          IN (Len(g.events) > Len(f.events) /\ IsHeartbeat(g.events[Len(g.events)]))
              => /\ Len(g.events) = Len(f.events) + 1
                 /\ clock - f.emit_at >= f.heartbeat_interval]_vars


\* a session of job j, and the status of j is "running"
HungUnder(s, j) ==
    /\ sess[s].pc # "unopened"
    /\ sess[s].job_id = j
    /\ status[j] = "running"

\* the latest statement of session s yielded a heartbeat that carries "running"
RunningHeartbeat(s) ==
    /\ sess[s].events # << >>
    /\ IsHeartbeat(sess[s].events[Len(sess[s].events)])
    /\ sess[s].events[Len(sess[s].events)].status = "running"

\* C17: a stream session never closes while the status in the store is not
\* terminal; an iteration that yields nothing comes less than one heartbeat
\* interval after the last heartbeat (or the opening); and if the status of the
\* job stays "running" for ever and its progress stops changing (the Producer
\* hangs), every session of the job reads the status again and again and
\* yields heartbeats carrying "running" again and again.
C17_HungJobKeepsStreaming ==
    /\ [][\A s \in SessionIds :
             (~Closed(sess[s]) /\ Closed(sess'[s]))
                 => GetStatus(sess[s].job_id) \in Terminal]_vars
    /\ [][\A s \in SessionIds :
             (sess[s].pc = "L92" /\ sess'[s].pc \in {"L121", "done"})
                 => clock - sess[s].last_heartbeat < sess[s].heartbeat_interval]_vars
    /\ \A s \in LoneSession, j \in JobIds :
          (<>[]HungUnder(s, j) /\ <>[][progress'[j] = progress[j]]_vars)
              => /\ []<>(sess[s].pc = "L91" /\ sess[s].status = "running")
                 /\ []<>RunningHeartbeat(s)

\* session s has just yielded a terminal event and is suspended at that yield
TerminalEventYielded(s) ==
    /\ sess[s].pc = "L107"
    /\ sess[s].events # << >>
    /\ ~IsHeartbeat(sess[s].events[1])
    /\ sess[s].events[1].status \in Terminal

\* C18: once the status of a job is completed or failed, every open session
\* of that job eventually returns, and the generator of a session ends only
\* when it is resumed from the yield of a terminal event.
C18_TerminalClosesSessions ==
    /\ \A s \in LoneSession :
           (sess[s].pc \in GeneratorLines
              /\ GetStatus(sess[s].job_id) \in Terminal)
             ~> sess[s].pc = "done"
    /\ [][\A s \in SessionIds :
             (~Closed(sess[s]) /\ Closed(sess'[s]))
                 => TerminalEventYielded(s)]_vars

\* the store holds no status key for id j
NoStatusKey(j) == j \notin JobIds \/ status[j] = None

\* C19: check_status for an id without a status key answers 404 and leaves the
\* store as it is; for an id that a submission returned it never answers 404,
\* reads the status the store holds, and answers 200 with that status,
\* changing nothing in the store.
C19_StatusQuery ==
    [][/\ \A j \in KnownIds :
             (query.pc = "idle" /\ query'.pc # "idle"
                 /\ query'.op = "check_status" /\ query'.job_id = j)
                 => /\ UNCHANGED jobVars
                    /\ NoStatusKey(j)
                          => query'.pc = "responded" /\ query'.code = 404
                    /\ j \in allocated
                          => query'.pc = "L136" /\ query'.status = status[j]
       /\ (query.pc \in {"L136", "L137"} /\ query' # query)
             => /\ UNCHANGED jobVars
                /\ query'.job_id = query.job_id
                /\ query'.pc = "responded" => query'.code = 200
                /\ query'.status = query.status]_vars

\* the documents of the collection that carry job id j, by position
Persisted(j) == {i \in DOMAIN collection : collection[i].job_id = j}

\* C20: get_result answers 404 exactly when no document is persisted for the
\* id, and such an id is unknown or belongs to a queued, running or failed job
\* (never to a completed one); once a document is persisted for the id,
\* get_result answers with that document, without its _id field.
C20_ResultRetrieval ==
    [][\A j \in KnownIds :
          (query.pc = "idle" /\ query'.pc = "responded"
              /\ query'.op = "get_result" /\ query'.job_id = j)
              => /\ UNCHANGED jobVars
                 /\ IF Persisted(j) = {}
                    THEN /\ query'.code = 404
                         /\ \/ NoStatusKey(j)
                            \/ status[j] \in {"queued", "running", "failed"}
                    ELSE /\ query'.code = 200
                         /\ "_id" \notin DOMAIN query'.doc
                         /\ \E i \in Persisted(j) :
                               /\ \A k \in Persisted(j) : i <= k
                               /\ query'.doc =
                                     [f \in DOMAIN collection[i] \ {"_id"}
                                          |-> collection[i][f]]]_vars

\* the positions of the characters of text x that are not white space
Ink(x) == {i \in DOMAIN x : x[i] \notin Whitespace}

\* text x without the white space before its first and behind its last such
\* character
Body(x) ==
    IF Ink(x) = {} THEN << >>
    ELSE SubSeq(x, CHOOSE a \in Ink(x) : \A i \in Ink(x) : a <= i,
                   CHOOSE b \in Ink(x) : \A i \in Ink(x) : i <= b)

\* the positions of Body(x) where "] " closes an agent name behind the tag
TagEnds(x) ==
    {i \in (Len(AgentTag) + 1)..(Len(Body(x)) - 1) :
        Body(x)[i] = 93 /\ Body(x)[i + 1] = 32}

\* text x has the form "[Agent:<name>] <message>"
IsAgentLine(x) ==
    /\ Len(Body(x)) > Len(AgentTag)
    /\ \A i \in DOMAIN AgentTag : Body(x)[i] = AgentTag[i]
    /\ TagEnds(x) # {}

\* the snapshot {agent: name, message: message} of such a text
SnapshotOf(x) ==
    LET i == CHOOSE n \in TagEnds(x) : \A k \in TagEnds(x) : n <= k
    IN [agent |-> SubSeq(Body(x), Len(AgentTag) + 1, i - 1),
        message |-> SubSeq(Body(x), i + 2, Len(Body(x)))]

\* C21: a text handed to the DummyFile of job k that has the form
\* "[Agent:<name>] <message>" replaces the progress key of k by the snapshot
\* {agent: name, message: message}, whatever the key held, and changes no
\* other progress key; a text that is empty or has another form changes no
\* progress key; no call of write changes a status or error key.
C21_ProgressCapture ==
    \A i \in DOMAIN written :
        LET w == written[i]
        IN /\ w.after.status = w.before.status
           /\ w.after.error = w.before.error
           /\ IF IsAgentLine(w.x)
              THEN /\ w.after.progress[w.sink] # NoText
                   /\ json_loads(w.after.progress[w.sink]) = SnapshotOf(w.x)
                   /\ \A k \in JobIds \ {w.sink} :
                         w.after.progress[k] = w.before.progress[k]
              ELSE w.after = w.before


\* C22: no call of DummyFile.write raises into the Producer, and every text
\* of the form "[Agent:<name>] <message>" is captured, whatever texts were
\* written before it.
C22_AdapterIsolated ==
    \A i \in DOMAIN written :
        /\ ~written[i].raised
        /\ IsAgentLine(written[i].x)
              => json_loads(written[i].after.progress[written[i].sink])
                     = SnapshotOf(written[i].x)


\* C23: the error key of a job is set only while its status is failed, its
\* result_path key only while its status is completed, and every answer of
\* check_status that carries status failed carries an error text.
C23_ErrorIffFailed ==
    /\ \A j \in JobIds :
          /\ error[j] # None => status[j] = "failed"
          /\ result_path[j] # None => status[j] = "completed"
    /\ (query.pc = "responded" /\ query.op = "check_status"
           /\ query.code = 200 /\ query.status = "failed")
          => query.error # None


\* C24: every Segment of a session that was constructed has
\* start_time_seconds >= 0, end_time_seconds >= 0 and
\* end_time_seconds > start_time_seconds.
C24_SegmentEndsAfterStart ==
    session = "built"
        => \A i \in DOMAIN draft.segments :
              /\ draft.segments[i].start_time_seconds >= 0
              /\ draft.segments[i].end_time_seconds >= 0
              /\ draft.segments[i].end_time_seconds
                    > draft.segments[i].start_time_seconds


\* C25: once the subscriber of a session has disconnected, the generator of
\* the session executes no further statement (no store read, no sleep, no
\* yield).
C25_StopsOnDisconnect ==
    [][\A s \in SessionIds :
          ~sess[s].connected => sess'[s].pc = sess[s].pc]_vars


\* C26: when the post-processing has ended, every action whose parameters the
\* draft supplied non-empty still has exactly those parameters.
C26_SuppliedParametersKept ==
    post.pc \in {"L122", "returned"} =>
        \A i \in DOMAIN draft.segments :
            \A j \in DOMAIN draft.segments[i].actions :
                NonEmpty(draft.segments[i].actions[j].parameters)
                    => post.session.segments[i].actions[j].parameters
                         = draft.segments[i].actions[j].parameters


\* the change events among the events of session s, in emission order
ChangeEvents(s) == SelectSeq(sess[s].events, LAMBDA ev : ~IsHeartbeat(ev))

\* two events carry the same (status, progress) pair
SamePair(a, b) ==
    /\ a.status = b.status
    /\ ("progress" \in DOMAIN a) = ("progress" \in DOMAIN b)
    /\ "progress" \in DOMAIN a => a.progress = b.progress

\* C27: an iteration of a session yields a change event exactly when the status
\* or the progress it has just read differs from the one it last emitted
\* (None, None at the start), and records the pair it read as last emitted
\* when it is resumed after that yield; an iteration without a change event
\* leaves the record alone; and no two consecutive change events of a session
\* carry the same pair.
C27_ChangeEventIffDifferent ==
    /\ [][\A s \in SessionIds :
             LET f == sess[s]
                 g == sess'[s]
                 emitted == /\ Len(g.events) > Len(f.events)
                            /\ ~IsHeartbeat(g.events[Len(f.events) + 1])
             IN  /\ (f.pc = "L92" /\ g.pc # "L92")
                     => /\ (emitted \/ g.pc = "L106")
                              <=> (<<f.status, f.progress>>
                                     # <<f.last_status, f.last_progress>>)
                        /\ emitted <=> g.pc = "L107"
                        /\ g.last_status = f.last_status
                        /\ g.last_progress = f.last_progress
                 /\ (f.pc = "L106" /\ g.pc # "L106")
                     => /\ emitted /\ g.pc = "L107"
                        /\ g.last_status = f.last_status
                        /\ g.last_progress = f.last_progress
                 /\ emitted => g.events[Len(f.events) + 1].status = f.status
                 /\ (f.pc = "L107" /\ g.pc # "L107")
                     => /\ g.last_status = f.status
                        /\ g.last_progress = f.progress
                 /\ (f.pc \in {"L90", "L91", "L114", "L121"}
                       /\ g.pc \in GeneratorLines \cup {"done"})
                     => /\ g.last_status = f.last_status
                        /\ g.last_progress = f.last_progress]_vars
    /\ [](\A s \in SessionIds :
             \A i \in 1..(Len(ChangeEvents(s)) - 1) :
                 ~SamePair(ChangeEvents(s)[i], ChangeEvents(s)[i + 1]))

\* C28: every change event with status failed carries the error text of the
\* job, and every change event with status completed carries the job id as
\* the reference to the result.
C28_TerminalEventPayload ==
    \A s \in SessionIds :
        \A i \in DOMAIN sess[s].events :
            LET ev == sess[s].events[i]
            IN ~IsHeartbeat(ev)
                => /\ ev.status = "failed"
                        => "error" \in DOMAIN ev /\ ev.error # None
                   /\ ev.status = "completed"
                        => "id" \in DOMAIN ev /\ ev.id = sess[s].job_id


\* the action types whose payload does not depend on the segment
MusicKinds == {"play", "fade_in", "fade_out", "volume_change"}
SegmentIndependentKinds == {"pause", "silence", "transition_cue"} \cup MusicKinds

\* C29: a call without contextual content for pause, silence, transition_cue
\* or a music kind returns, whatever the cache holds, the payload that a call
\* on an empty cache returns for that kind and any segment type; for the
\* music kinds that payload is the ambient track.
C29_SegmentIndependentDefaults ==
    \A i \in DOMAIN calls :
        LET c == calls[i]
        IN (c.action_type \in SegmentIndependentKinds /\ ~Truthy(c.content_info))
            => /\ ~c.ret.raised
               /\ \A s \in SegmentType :
                     c.ret.value = _run(<< >>, c.action_type, s, PyNone).value
               /\ c.action_type \in MusicKinds
                     => c.ret.value = MusicParameters("ambient_peace", "0.3")

\* a call without content for a kind of the table was answered from the cache,
\* which an earlier call with content had filled
C29_Witness ==
    /\ Len(calls) = 2
    /\ calls[1].action_type = "pause"
    /\ Truthy(calls[1].content_info)
    /\ calls[2].action_type = "pause"
    /\ calls[2].segment_type = calls[1].segment_type
    /\ calls[2].content_info = PyNone
    /\ ~calls[2].ret.raised
    /\ calls[2].ret.source = "cache"

\* C30: a speak call without contextual content for a segment type that
\* default_content has no entry for returns the generic phrase.
C30_GenericPhraseWithoutEntry ==
    \A i \in DOMAIN calls :
        LET c == calls[i]
        IN (/\ c.action_type = "speak"
            /\ ~Truthy(c.content_info)
            /\ c.segment_type \notin DOMAIN default_content)
            => /\ ~c.ret.raised
               /\ c.ret.value = SpeakParameters("Take a moment to be present.")


\* C32: while the status key of a job reads completed, get_result for its id
\* answers 200; and an id for which get_result answers 200 is answered 200
\* ever after. So a result query made after completed was observed never
\* answers 404.
C32_CompletedImpliesPersisted ==
    /\ [](\A j \in JobIds :
             status[j] = "completed" => get_result_response(j).code = 200)
    /\ [][\A j \in JobIds :
             get_result_response(j).code = 200
                 => get_result_response(j)'.code = 200]_vars

\* get_result has answered 200 for a job whose status reads completed
C32_Witness ==
    /\ query.pc = "responded"
    /\ query.op = "get_result"
    /\ query.code = 200
    /\ query.job_id \in JobIds
    /\ status[query.job_id] = "completed"


\* C33: when every execution of run_generation_job has ended (returned, or
\* left by an exception) and none is waiting to start, sys.stdout and
\* sys.stderr are the original streams.
C33_SinkRestored ==
    (\A j \in JobIds : tasks[j] = 0 /\ pc[j] \in {"idle", "done", "crashed"})
        => sys_stdout = 0 /\ sys_stderr = 0


\* event ev carries the progress snapshot of line 78, which the execution
\* writes after it has set the status to completed
CarriesFinalSnapshot(ev) ==
    /\ "progress" \in DOMAIN ev
    /\ "stage" \in DOMAIN ev.progress
    /\ ev.progress["stage"] = << "completed" >>

\* C34: no change event of a session carries a non-terminal status together
\* with the progress snapshot written after the terminal status.
C34_PairFromOneInstant ==
    \A s \in SessionIds :
        \A i \in DOMAIN sess[s].events :
            (~IsHeartbeat(sess[s].events[i]) /\ CarriesFinalSnapshot(sess[s].events[i]))
                => sess[s].events[i].status \in Terminal


\* C35: every change event with status completed carries the progress
\* snapshot {stage: completed, ...} of line 78.
C35_CompletedEventHasFinalSnapshot ==
    \A s \in SessionIds :
        \A i \in DOMAIN sess[s].events :
            (~IsHeartbeat(sess[s].events[i]) /\ sess[s].events[i].status = "completed")
                => CarriesFinalSnapshot(sess[s].events[i])


\* C36: a session opened for an id without a status key never closes, and
\* every event it yields is a heartbeat that reports status running.
C36_UnknownIdOnlyHeartbeats ==
    \A s \in SessionIds :
        (sess[s].pc # "unopened" /\ sess[s].open_status = None)
            => /\ ~Closed(sess[s])
               /\ \A i \in DOMAIN sess[s].events :
                     /\ IsHeartbeat(sess[s].events[i])
                     /\ sess[s].events[i].status = "running"


\* C37: a call without contextual content returns, whatever calls were made
\* before it, the payload that the same call returns on an empty cache.
C37_HistoryIndependent ==
    \A i \in DOMAIN calls :
        ~Truthy(calls[i].content_info)
            => LET fresh == _run(<< >>, calls[i].action_type,
                                 calls[i].segment_type, PyNone)
               IN /\ calls[i].ret.raised = fresh.raised
                  /\ calls[i].ret.value = fresh.value


\* a session with the parameters of every action left out
WithoutParameters(d) ==
    [d EXCEPT !.segments =
        [i \in DOMAIN d.segments |->
            [d.segments[i] EXCEPT !.actions =
                [j \in DOMAIN d.segments[i].actions |->
                    [f \in DOMAIN d.segments[i].actions[j] \ {"parameters"} |->
                        d.segments[i].actions[j][f]]]]]]

\* C38: when the post-processing loop has ended, the session is the draft in
\* everything but action parameters: the same segments in the same order
\* with the same title, type and start/end times, in each the same actions
\* in the same order with the same agent, type, start time and duration,
\* and the same title, theme, difficulty and duration_seconds.
C38_OnlyParametersChange ==
    post.pc \in {"L122", "returned"} =>
        WithoutParameters(post.session) = WithoutParameters(draft)

\* the loop has ended on a draft of two segments after giving an action of
\* each segment new parameters
C38_Witness ==
    /\ post.pc = "returned"
    /\ Len(draft.segments) = 2
    /\ \A i \in DOMAIN draft.segments :
           \E j \in DOMAIN draft.segments[i].actions :
               post.session.segments[i].actions[j].parameters
                   # draft.segments[i].actions[j].parameters

\* session s executes a statement
Advances(s) == sess'[s].pc # sess[s].pc

\* session s waits at a yield for its next next(), and cannot get a worker
\* thread while another session is inside its own next()
Starved(s) ==
    /\ sess[s].pc \in Yields
    /\ borrowed_tokens >= MaxThreads
    /\ \E t \in SessionIds \ {s} : sess[t].pc \in GeneratorLines \ Yields

\* C31: a step in which a session executes a statement changes no key of the
\* store (nor the result collection, nor anything else of the job) and leaves
\* the frame of every other session as it was; and whether a session goes on
\* from a yield to its next poll does not depend on where the other sessions
\* stand - no session waits because another one polls or sleeps.
C31_SessionsReadOnlyAndApart ==
    /\ [][\A s \in SessionIds :
             Advances(s) =>
                 /\ jobVars' = jobVars
                 /\ \A t \in SessionIds \ {s} : sess'[t] = sess[t]]_vars
    /\ [](\A s \in SessionIds : ~Starved(s))

====
